---- MODULE Spec2Model ----
(***************************************************************************)
(* MemoryTable<Mode> of libstorage/MemoryTable.h: the lazy key cache over  *)
(* the remote store, the mutating operations with their recorder calls,    *)
(* and rollback of the recorded changes.                                   *)
(***************************************************************************)
EXTENDS Integers, Sequences, FiniteSets, TLC

VARIABLES tabs, thr

vars == <<tabs, thr>>

(* ------------------------------ bounds --------------------------------- *)

\* most rows one Entries may hold
MaxRows == 2
\* most changes the recorder's journal may hold
MaxJournal == 2
\* most Entries objects that are ever put on the heap of one table
MaxObjs == 2

\* the keys of the table, and the keys the calls of Spec are made on
Keys == {"k1", "k2"}
SpecKeys == {"k1"}
Threads == {1, 2}
Tables == {1, 2}

(* ----------------------------- vocabulary ------------------------------ *)

\* a cache slot: no such key (find() = end()), the null pointer, or the
\* heap address (1, 2, ...) of an Entries
ABSENT == -1
NULLP == 0
\* reference to an Entries made by make_shared<Entries>() inside selectCache
\* and held by no cache slot
FRESH == -2

CODE_NO_AUTHORIZED == -50000

\* all field names in lexicographic order (the order std::map iterates in)
NameOrder == <<"_id_", "age", "bad", "name">>
\* TableInfo.fields
SchemaFields == {"age", "name"}

Origins == {"0xA", "0xB"}
AccessOptions ==
    { [origin |-> "0xA", check |-> TRUE],
      [origin |-> "0xB", check |-> TRUE],
      [origin |-> "0xB", check |-> FALSE] }

\* entries a caller inserts
InsertEntries ==
    { ("_id_" :> "1" @@ "age" :> "1" @@ "name" :> "A"),
      ("bad" :> "1" @@ "name" :> "A") }

\* entries a caller passes to update
Patches ==
    { ("age" :> "x"),
      ("age" :> "1" @@ "bad" :> "1") }

\* conditions: sets of <<field, op, rhs>>
Conditions ==
    { {},
      {<<"name", "eq", "A">>},
      {<<"age", "gt", "">>} }

\* what RemoteStore.select holds for a key: null, a non-null Entries of
\* size 0, or a non-null Entries with rows
RemoteKinds == {"null", "empty", "rows"}

Row(f, s, d) == [fields |-> f, status |-> s, dirty |-> d]

RemoteRows ==
    << Row(("name" :> "A"), 0, FALSE) >>

EmptyEntries == [rows |-> <<>>, dirty |-> FALSE]

(* --------------------------- Entry / Entries --------------------------- *)

getField(entry, name) ==
    IF name \in DOMAIN entry.fields THEN entry.fields[name] ELSE ""

setField(entry, name, value) ==
    [entry EXCEPT !.fields =
                      [n \in (DOMAIN entry.fields) \cup {name} |->
                          IF n = name THEN value ELSE entry.fields[n]],
                  !.dirty = TRUE]

setStatus(entry, s) == [entry EXCEPT !.status = s, !.dirty = TRUE]

addEntry(entries, entry) ==
    [rows |-> Append(entries.rows, entry), dirty |-> TRUE]

removeEntry(entries, index) ==
    [entries EXCEPT !.rows =
        [j \in 1..(Len(entries.rows) - 1) |->
            IF j <= index THEN entries.rows[j] ELSE entries.rows[j + 1]]]

\* the field names of an entry in iteration order
RECURSIVE FieldSeqFrom(_, _)
FieldSeqFrom(f, i) ==
    IF i > Len(NameOrder) THEN <<>>
    ELSE (IF NameOrder[i] \in DOMAIN f THEN <<NameOrder[i]>> ELSE <<>>)
             \o FieldSeqFrom(f, i + 1)

FieldSeq(f) == FieldSeqFrom(f, 1)

(* ------------------------------ the table ------------------------------ *)

\* the value the operations leave in ret; each operation fills its fields
NoRet ==
    [op |-> "none", key |-> "", val |-> 0, exc |-> FALSE, caught |-> FALSE,
     ref |-> NULLP, pre |-> ABSENT, needSelect |-> FALSE, calls |-> 0,
     recs |-> 0, seen |-> <<>>, before |-> <<>>, matched |-> {},
     rows |-> <<>>, arg |-> <<>>, cond |-> {}, denied |-> FALSE,
     kind |-> "", value |-> <<>>, options |-> [origin |-> "", check |-> FALSE],
     indexes |-> <<>>, digest |-> <<>>, data |-> {}]

\* a table right after construction and its set* calls
NewTable(remoteDB, remote, authorized, recorder) ==
    [m_cache |-> [k \in Keys |-> ABSENT],
     order |-> <<>>,
     heap |-> <<>>,
     m_remoteDB |-> remoteDB,
     remote |-> remote,
     m_tableInfo |-> [fields |-> SchemaFields, authorizedAddress |-> authorized],
     m_recorder |-> recorder,
     journal |-> <<>>,
     x_cache |-> 0,
     fault |-> FALSE,
     wasDirty |-> {},
     log |-> <<>>,
     ret |-> NoRet]

\* the Entries a reference denotes
Deref(t, ref) == IF ref = FRESH THEN EmptyEntries ELSE t.heap[ref]

\* what RemoteStore.select answers for a key: NULLP or a new Entries
RemoteEntries(kind) ==
    IF kind = "rows" THEN [rows |-> RemoteRows, dirty |-> FALSE] ELSE EmptyEntries

\* m_cache.insert(std::make_pair(key, v)): an existing slot is kept
CacheInsert(cache, key, v) ==
    IF cache[key] = ABSENT THEN [cache EXCEPT ![key] = v] ELSE cache

\* m_cache[key] = v
CacheStore(cache, key, v) == [cache EXCEPT ![key] = v]

\* the keys of m_cache in the order its iteration gives them: a key joins
\* at the end when an insert or operator[] makes its slot
Touch(order, key) ==
    IF \E i \in DOMAIN order : order[i] = key THEN order ELSE Append(order, key)

\* m_remoteDB->select(...) that answers: puts the answered Entries, if any,
\* on the heap; ref is NULLP or its address
remoteSelect(t, key) ==
    LET kind == t.remote[key]
    IN  IF kind = "null"
        THEN [t |-> t, ref |-> NULLP]
        ELSE [t |-> [t EXCEPT !.heap = Append(@, RemoteEntries(kind))],
              ref |-> Len(t.heap) + 1]

\* selectCache(key, needSelect) run by one thread without interleaving;
\* fail says whether the RemoteStore call, if made, throws
selectCache(t, key, needSelect, fail) ==
    LET slot == t.m_cache[key]
    IN  IF slot = ABSENT
        THEN IF t.m_remoteDB /\ needSelect
             THEN IF fail
                  THEN [t |-> t, ref |-> FRESH, exc |-> TRUE, calls |-> 1]
                  ELSE LET rs == remoteSelect(t, key)
                       IN  [t |-> [rs.t EXCEPT !.m_cache =
                                       CacheInsert(@, key, rs.ref),
                                                !.order = Touch(@, key)],
                            ref |-> IF rs.ref = NULLP THEN FRESH ELSE rs.ref,
                            exc |-> FALSE, calls |-> 1]
             ELSE [t |-> t, ref |-> FRESH, exc |-> FALSE, calls |-> 0]
        ELSE IF slot = NULLP
        THEN IF t.m_remoteDB /\ needSelect
             THEN IF fail
                  THEN [t |-> t, ref |-> FRESH, exc |-> TRUE, calls |-> 1]
                  ELSE LET rs == remoteSelect(t, key)
                       IN  [t |-> [rs.t EXCEPT !.m_cache =
                                       CacheStore(@, key, rs.ref)],
                            ref |-> IF rs.ref = NULLP THEN FRESH ELSE rs.ref,
                            exc |-> FALSE, calls |-> 1]
             ELSE [t |-> t, ref |-> FRESH, exc |-> FALSE, calls |-> 0]
        ELSE [t |-> t, ref |-> slot, exc |-> FALSE, calls |-> 0]


(* -------------------------- gates and matching ------------------------- *)

\* checkAuthority without the search of authorizedAddress
checkAuthority_noSearch(t, origin) == TRUE

checkAuthority(t, origin) ==
    IF t.m_tableInfo.authorizedAddress = {} THEN TRUE
    ELSE origin \in t.m_tableInfo.authorizedAddress

\* checkField looking at the first field of the entry alone
checkField_firstOnly(t, entry) ==
    \/ FieldSeq(entry) = <<>>
    \/ FieldSeq(entry)[1] = "_id_"
    \/ FieldSeq(entry)[1] \in t.m_tableInfo.fields

\* FALSE when checkField throws std::invalid_argument
checkField(t, entry) ==
    \A n \in DOMAIN entry : n = "_id_" \/ n \in t.m_tableInfo.fields

\* boost::lexical_cast<int> on the strings of the model: the decimal
\* strings convert, the others throw
IsInt(s) == s \in {"0", "1", "2"}
IntOf(s) == CASE s = "0" -> 0 [] s = "1" -> 1 [] s = "2" -> 2 [] OTHER -> 0

\* one <<field, op, rhs>> of a condition on an entry; FALSE also when the
\* numeric conversion throws
processPredicate(entry, p) ==
    LET lhs == getField(entry, p[1])
        rhs == p[3]
        op == p[2]
        l0 == IF lhs = "" THEN "0" ELSE lhs
        r0 == IF rhs = "" THEN "0" ELSE rhs
    IN  IF op = "eq" THEN lhs = rhs
        ELSE IF op = "ne" THEN lhs # rhs
        ELSE IF ~(IsInt(l0) /\ IsInt(r0)) THEN FALSE
        ELSE CASE op = "gt" -> IntOf(l0) > IntOf(r0)
               [] op = "ge" -> IntOf(l0) >= IntOf(r0)
               [] op = "lt" -> IntOf(l0) < IntOf(r0)
               [] op = "le" -> IntOf(l0) <= IntOf(r0)
               [] OTHER -> TRUE

\* processCondition without the test of the status
processCondition_noStatusTest(entry, condition) ==
    IF condition = {} THEN TRUE
    ELSE \A p \in condition : processPredicate(entry, p)

processCondition(entry, condition) ==
    IF condition = {} THEN TRUE
    ELSE IF entry.status = 1 THEN FALSE
    ELSE \A p \in condition : processPredicate(entry, p)

\* the matching indexes (from 0, as in the code) in ascending order
RECURSIVE IndexesFrom(_, _, _)
IndexesFrom(rows, condition, i) ==
    IF i >= Len(rows) THEN <<>>
    ELSE (IF processCondition(rows[i + 1], condition) THEN <<i>> ELSE <<>>)
             \o IndexesFrom(rows, condition, i + 1)

processEntries(entries, condition) ==
    IF condition = {}
    THEN [j \in 1..Len(entries.rows) |-> j - 1]
    ELSE IndexesFrom(entries.rows, condition, 0)

Range(s) == {s[j] : j \in DOMAIN s}

(* ------------------------------ recorder ------------------------------- *)

\* m_recorder(shared_from_this(), kind, key, value), when bound: the caller's
\* callback keeps the change
recorder(t, kind, key, value) ==
    IF t.m_recorder
    THEN [t EXCEPT !.journal = Append(@, [kind |-> kind, key |-> key, value |-> value])]
    ELSE t

\* write an Entries back through its reference
StoreObj(t, ref, val) ==
    IF ref = FRESH THEN t ELSE [t EXCEPT !.heap[ref] = val]

setDirty(entries, d) == [entries EXCEPT !.dirty = d]

\* the entry a caller built with setField for every field
NewRow(fields) == Row(fields, 0, TRUE)


(* ----------------------------- operations ------------------------------ *)

\* ret of an operation on key, before it ran its steps
RetOf(t, op, key) ==
    [NoRet EXCEPT !.op = op, !.key = key, !.pre = t.m_cache[key]]

select(t, key, condition, fail) ==
    LET r0 == [RetOf(t, "select", key) EXCEPT !.cond = condition, !.needSelect = TRUE]
        sc == selectCache(t, key, TRUE, fail)
        r1 == [r0 EXCEPT !.calls = sc.calls, !.ref = sc.ref]
    IN  IF sc.exc
        THEN [sc.t EXCEPT !.ret = [r1 EXCEPT !.caught = TRUE]]
        ELSE LET entries == Deref(sc.t, sc.ref)
                 indexes == processEntries(entries, condition)
             IN  [sc.t EXCEPT !.ret =
                     [r1 EXCEPT !.rows = [j \in DOMAIN indexes |-> entries.rows[indexes[j] + 1]],
                                !.val = Len(indexes),
                                !.matched = Range(indexes),
                                !.indexes = indexes,
                                !.before = entries.rows]]

\* the records of update: for each matching index, for each field of the
\* patch, the value getField gave before the write
RECURSIVE FieldRecords(_, _, _, _)
FieldRecords(row, i, names, j) ==
    IF j > Len(names) THEN <<>>
    ELSE <<[index |-> i, key |-> names[j], oldValue |-> getField(row, names[j])]>>
             \o FieldRecords(row, i, names, j + 1)

RECURSIVE UpdateRecords(_, _, _, _)
UpdateRecords(rows, indexes, patch, j) ==
    IF j > Len(indexes) THEN <<>>
    ELSE FieldRecords(rows[indexes[j] + 1], indexes[j], FieldSeq(patch), 1)
             \o UpdateRecords(rows, indexes, patch, j + 1)

RECURSIVE PatchRow(_, _, _, _)
PatchRow(row, patch, names, j) ==
    IF j > Len(names) THEN row
    ELSE PatchRow(setField(row, names[j], patch[names[j]]), patch, names, j + 1)

update(t, key, entry, condition, options, fail) ==
    LET r0 == [RetOf(t, "update", key) EXCEPT !.arg = entry, !.cond = condition,
                                              !.needSelect = TRUE,
                                              !.options = options]
    IN  IF options.check /\ ~checkAuthority(t, options.origin)
        THEN [t EXCEPT !.ret = [RetOf(t, r0.op, key) EXCEPT
                                   !.val = CODE_NO_AUTHORIZED, !.denied = TRUE,
                                   !.options = options]]
        ELSE
        LET sc == selectCache(t, key, TRUE, fail)
            r1 == [r0 EXCEPT !.calls = sc.calls, !.ref = sc.ref]
            entries == Deref(sc.t, sc.ref)
        IN  IF sc.exc
            THEN [sc.t EXCEPT !.ret = [r1 EXCEPT !.val = 0, !.caught = TRUE]]
            ELSE IF Len(entries.rows) = 0
            THEN [sc.t EXCEPT !.ret = [r1 EXCEPT !.val = 0]]
            ELSE IF ~checkField(sc.t, entry)
            THEN [sc.t EXCEPT !.ret = [r1 EXCEPT !.val = 0, !.caught = TRUE,
                                                 !.before = entries.rows]]
            ELSE
            LET indexes == processEntries(entries, condition)
                records == UpdateRecords(entries.rows, indexes, entry, 1)
                written == [entries EXCEPT !.rows =
                               [j \in DOMAIN entries.rows |->
                                   IF (j - 1) \in Range(indexes)
                                   THEN PatchRow(entries.rows[j], entry, FieldSeq(entry), 1)
                                   ELSE entries.rows[j]]]
                t1 == StoreObj(sc.t, sc.ref, written)
                t2 == recorder(t1, "Update", key, records)
                t3 == StoreObj(t2, sc.ref, setDirty(Deref(t2, sc.ref), TRUE))
            IN  [t3 EXCEPT !.ret =
                    [r1 EXCEPT !.val = Len(indexes),
                               !.recs = Len(t2.journal) - Len(t1.journal),
                               !.seen = Deref(t1, sc.ref).rows,
                               !.before = entries.rows,
                               !.indexes = indexes,
                               !.matched = Range(indexes)]]

insert(t, key, entry, options, needSelect, fail) ==
    LET r0 == [RetOf(t, "insert", key) EXCEPT !.arg = entry, !.needSelect = needSelect,
                                              !.options = options]
    IN  IF options.check /\ ~checkAuthority(t, options.origin)
        THEN [t EXCEPT !.ret = [RetOf(t, r0.op, key) EXCEPT
                                   !.val = CODE_NO_AUTHORIZED, !.denied = TRUE,
                                   !.options = options]]
        ELSE
        LET sc == selectCache(t, key, needSelect, fail)
            r1 == [r0 EXCEPT !.calls = sc.calls, !.ref = sc.ref]
            entries == Deref(sc.t, sc.ref)
        IN  IF sc.exc
            THEN [sc.t EXCEPT !.ret = [r1 EXCEPT !.val = 1, !.caught = TRUE]]
            ELSE IF ~checkField(sc.t, entry)
            THEN [sc.t EXCEPT !.ret = [r1 EXCEPT !.val = 1, !.caught = TRUE,
                                                 !.before = entries.rows]]
            ELSE
            LET record == [index |-> Len(entries.rows), key |-> "", oldValue |-> ""]
                t1 == recorder(sc.t, "Insert", key, <<record>>)
                added == addEntry(entries, NewRow(entry))
                t2 == IF Len(entries.rows) = 0
                      THEN IF sc.ref = FRESH
                           THEN IF t1.m_cache[key] = ABSENT
                                THEN [t1 EXCEPT !.heap = Append(@, added),
                                                !.m_cache = CacheInsert(@, key, Len(t1.heap) + 1),
                                                !.order = Touch(@, key)]
                                ELSE t1
                           ELSE [StoreObj(t1, sc.ref, added) EXCEPT
                                    !.m_cache = CacheInsert(@, key, sc.ref),
                                    !.order = Touch(@, key)]
                      ELSE StoreObj(t1, sc.ref, added)
            IN  [t2 EXCEPT !.ret =
                    [r1 EXCEPT !.val = 1,
                               !.recs = Len(t1.journal) - Len(sc.t.journal),
                               !.seen = Deref(sc.t, sc.ref).rows,
                               !.before = entries.rows]]

\* remove calling the recorder before it sets the statuses
remove_recordFirst(t, key, condition, options, fail) ==
    LET r0 == [RetOf(t, "remove", key) EXCEPT !.cond = condition, !.needSelect = TRUE,
                                              !.options = options]
    IN  IF options.check /\ ~checkAuthority(t, options.origin)
        THEN [t EXCEPT !.ret = [RetOf(t, r0.op, key) EXCEPT
                                   !.val = CODE_NO_AUTHORIZED, !.denied = TRUE,
                                   !.options = options]]
        ELSE
        LET sc == selectCache(t, key, TRUE, fail)
            r1 == [r0 EXCEPT !.calls = sc.calls, !.ref = sc.ref]
            entries == Deref(sc.t, sc.ref)
        IN  IF sc.exc
            THEN [sc.t EXCEPT !.ret = [r1 EXCEPT !.exc = TRUE]]
            ELSE
            LET indexes == processEntries(entries, condition)
                records == [j \in DOMAIN indexes |->
                               [index |-> indexes[j], key |-> "", oldValue |-> ""]]
                written == [entries EXCEPT !.rows =
                               [j \in DOMAIN entries.rows |->
                                   IF (j - 1) \in Range(indexes)
                                   THEN setStatus(entries.rows[j], 1)
                                   ELSE entries.rows[j]]]
                t1 == recorder(sc.t, "Remove", key, records)
                t3 == StoreObj(t1, sc.ref, setDirty(written, TRUE))
            IN  [t3 EXCEPT !.ret =
                    [r1 EXCEPT !.val = Len(indexes),
                               !.recs = Len(t1.journal) - Len(sc.t.journal),
                               !.seen = Deref(sc.t, sc.ref).rows,
                               !.before = entries.rows,
                               !.indexes = indexes,
                               !.matched = Range(indexes)]]

remove(t, key, condition, options, fail) ==
    LET r0 == [RetOf(t, "remove", key) EXCEPT !.cond = condition, !.needSelect = TRUE,
                                              !.options = options]
    IN  IF options.check /\ ~checkAuthority(t, options.origin)
        THEN [t EXCEPT !.ret = [RetOf(t, r0.op, key) EXCEPT
                                   !.val = CODE_NO_AUTHORIZED, !.denied = TRUE,
                                   !.options = options]]
        ELSE
        LET sc == selectCache(t, key, TRUE, fail)
            r1 == [r0 EXCEPT !.calls = sc.calls, !.ref = sc.ref]
            entries == Deref(sc.t, sc.ref)
        IN  IF sc.exc
            THEN [sc.t EXCEPT !.ret = [r1 EXCEPT !.exc = TRUE]]
            ELSE
            LET indexes == processEntries(entries, condition)
                records == [j \in DOMAIN indexes |->
                               [index |-> indexes[j], key |-> "", oldValue |-> ""]]
                written == [entries EXCEPT !.rows =
                               [j \in DOMAIN entries.rows |->
                                   IF (j - 1) \in Range(indexes)
                                   THEN setStatus(entries.rows[j], 1)
                                   ELSE entries.rows[j]]]
                t1 == StoreObj(sc.t, sc.ref, written)
                t2 == recorder(t1, "Remove", key, records)
                t3 == StoreObj(t2, sc.ref, setDirty(Deref(t2, sc.ref), TRUE))
            IN  [t3 EXCEPT !.ret =
                    [r1 EXCEPT !.val = Len(indexes),
                               !.recs = Len(t2.journal) - Len(t1.journal),
                               !.seen = Deref(t1, sc.ref).rows,
                               !.before = entries.rows,
                               !.indexes = indexes,
                               !.matched = Range(indexes)]]


RECURSIVE RestoreFields(_, _, _)
RestoreFields(rows, records, j) ==
    IF j > Len(records) THEN rows
    ELSE RestoreFields(
             [rows EXCEPT ![records[j].index + 1] =
                 setField(@, records[j].key, records[j].oldValue)],
             records, j + 1)

\* the Remove case restoring value[0] alone, as the Insert case reads it
RestoreStatus_firstOnly(rows, records, j) ==
    IF records = <<>> THEN rows
    ELSE [rows EXCEPT ![records[1].index + 1] = setStatus(@, 0)]

\* the Remove case leaving the entries it restores clean
RestoreStatus_clean(rows, records, j) ==
    [i \in DOMAIN rows |->
        IF \E r \in DOMAIN records : records[r].index + 1 = i
        THEN [rows[i] EXCEPT !.status = 0, !.dirty = FALSE]
        ELSE rows[i]]

RECURSIVE RestoreStatus(_, _, _)
RestoreStatus(rows, records, j) ==
    IF j > Len(records) THEN rows
    ELSE RestoreStatus(
             [rows EXCEPT ![records[j].index + 1] = setStatus(@, 0)],
             records, j + 1)

\* rollback(_change).  m_cache[_change.key] makes a null slot for a key the
\* cache does not hold.  A call through the null pointer, or get/erase past
\* the end, is undefined behaviour: the table is left as it was and marked
\* faulted, and nothing runs on it afterwards.
rollback(t, change) ==
    LET key == change.key
        r0 == [RetOf(t, "rollback", key) EXCEPT !.kind = change.kind,
                                                !.value = change.value]
        t0 == IF t.m_cache[key] = ABSENT
              THEN [t EXCEPT !.m_cache = CacheStore(@, key, NULLP),
                             !.order = Touch(@, key)]
              ELSE t
        ref == t0.m_cache[key]
        size == IF ref = NULLP THEN 0 ELSE Len(t0.heap[ref].rows)
        inRange == \A j \in DOMAIN change.value : change.value[j].index < size
        r1 == [r0 EXCEPT !.ref = ref,
                         !.before = IF ref = NULLP THEN <<>> ELSE t0.heap[ref].rows]
        faulted == [t0 EXCEPT !.fault = TRUE, !.ret = [r1 EXCEPT !.exc = TRUE]]
    IN  CASE change.kind = "Insert" ->
                IF ref = NULLP \/ ~inRange THEN faulted
                ELSE LET removed == removeEntry(t0.heap[ref], change.value[1].index)
                         t1 == StoreObj(t0, ref, removed)
                     IN  [t1 EXCEPT !.m_cache = IF Len(removed.rows) = 0
                                                THEN CacheStore(@, key, NULLP)
                                                ELSE @,
                                    !.ret = r1]
          [] change.kind = "Update" ->
                IF change.value = <<>> THEN [t0 EXCEPT !.ret = r1]
                ELSE IF ref = NULLP \/ ~inRange THEN faulted
                ELSE [t0 EXCEPT !.heap[ref].rows = RestoreFields(@, change.value, 1),
                                !.ret = r1]
          [] change.kind = "Remove" ->
                IF change.value = <<>> THEN [t0 EXCEPT !.ret = r1]
                ELSE IF ref = NULLP \/ ~inRange THEN faulted
                ELSE [t0 EXCEPT !.heap[ref].rows = RestoreStatus(@, change.value, 1),
                                !.ret = r1]
          [] OTHER -> [t EXCEPT !.ret = r0]

(* --------------------------- hash and dump ----------------------------- *)

\* the characters of the field names, for substr
Spell ==
    ( "_id_" :> <<"_", "i", "d", "_">> @@ "age" :> <<"a", "g", "e">>
      @@ "bad" :> <<"b", "a", "d">> @@ "name" :> <<"n", "a", "m", "e">>
      @@ "_status_" :> <<"_", "s", "t", "a", "t", "u", "s", "_">> )

STATUS == "_status_"

\* isHashField taking every field for a hash field
isHashField_everyField(_key) == _key # ""

isHashField(_key) ==
    IF _key # ""
    THEN \/ (Spell[_key][1] # "_" /\ Spell[_key][Len(Spell[_key])] # "_")
         \/ _key = STATUS
    ELSE FALSE

\* the keys in lexicographic order, as std::map orders them
KeyOrder == <<"k1", "k2">>

\* std::map<std::string, Entries::Ptr> tmpOrderedCache(m_cache.begin(),
\* m_cache.end()): the keys of the cache, sorted
tmpOrderedCache(t) == SelectSeq(KeyOrder, LAMBDA k : t.m_cache[k] # ABSENT)

\* h256() and dev::sha256: a digest is the zero digest or stands for the
\* bytes it was made of (no two byte strings share a digest)
ZeroDigest == <<>>
sha256(data) == <<data>>

\* the bytes of the hash fields of one entry, in the order of fields()
RECURSIVE FieldBytes(_, _, _)
FieldBytes(entry, names, j) ==
    IF j > Len(names) THEN ""
    ELSE (IF isHashField(names[j])
          THEN names[j] \o entry.fields[names[j]]
          ELSE "")
             \o FieldBytes(entry, names, j + 1)

\* the bytes of the dirty entries of one Entries, by position
RECURSIVE EntriesBytes(_, _)
EntriesBytes(rows, i) ==
    IF i > Len(rows) THEN ""
    ELSE (IF rows[i].dirty
          THEN FieldBytes(rows[i], FieldSeq(rows[i].fields), 1)
          ELSE "")
             \o EntriesBytes(rows, i + 1)

\* the test of hash() on a slot without the call of dirty()
Digested_noDirtyTest(t, key) == t.m_cache[key] # NULLP

\* it.second != nullptr && it.second->dirty()
Digested(t, key) ==
    t.m_cache[key] # NULLP /\ t.heap[t.m_cache[key]].dirty

\* the loop of hash() over the keys in the order given
RECURSIVE HashData(_, _, _)
HashData(t, keys, j) ==
    IF j > Len(keys) THEN ""
    ELSE (IF Digested(t, keys[j])
          THEN keys[j] \o EntriesBytes(t.heap[t.m_cache[keys[j]]].rows, 1)
          ELSE "")
             \o HashData(t, keys, j + 1)

\* hash() running over m_cache in its own iteration order
hash_unsorted(t) ==
    LET data == HashData(t, t.order, 1)
    IN  IF data = "" THEN ZeroDigest ELSE sha256(data)

hash(t) ==
    LET data == HashData(t, tmpOrderedCache(t), 1)
    IN  IF data = "" THEN ZeroDigest ELSE sha256(data)

\* dump(_data) without the test of it.second against nullptr on the insert
dump_withTombstones(t) ==
    LET kept == {k \in Keys : t.m_cache[k] # ABSENT}
    IN  [data |-> {<<k, t.m_cache[k]>> : k \in kept},
         dirtyTable |-> \E k \in kept :
                           t.m_cache[k] # NULLP /\ t.heap[t.m_cache[k]].dirty]

\* dump(_data) on a TableData the caller made for it: what _data->data
\* holds afterwards, as <<key, Entries>> pairs, and the value returned
dump(t) ==
    LET kept == {k \in Keys : t.m_cache[k] # ABSENT /\ t.m_cache[k] # NULLP}
    IN  [data |-> {<<k, t.m_cache[k]>> : k \in kept},
         dirtyTable |-> \E k \in kept : t.heap[t.m_cache[k]].dirty]

\* empty()
empty(t) == \A k \in Keys : t.m_cache[k] \in {ABSENT, NULLP}

\* cacheSize()
cacheSize(t) == Cardinality({k \in Keys : t.m_cache[k] # ABSENT})

(* --------------------------- the state machine -------------------------- *)

\* a thread in selectCache: where it is, its key, the slot value its find
\* gave (it), its local entries pointer, its RemoteStore.select calls
IdleThread == [pc |-> "idle", key |-> "", it |-> ABSENT, entries |-> NULLP,
               calls |-> 0]

\* the bounds of the model on a table
Bounded(t) ==
    /\ Len(t.heap) <= MaxObjs
    /\ Len(t.journal) <= MaxJournal
    /\ \A i \in DOMAIN t.heap : Len(t.heap[i].rows) <= MaxRows

\* the tables a block can start with: RemoteStore bound or not, what it
\* holds for each key, the authorized addresses, a recorder bound or not
StartTables ==
    { NewTable(TRUE, [k \in Keys |-> kind], {"0xA"}, rec) :
          kind \in RemoteKinds, rec \in BOOLEAN }
    \cup { NewTable(FALSE, [k \in Keys |-> "null"], {"0xA"}, TRUE),
           NewTable(TRUE, [k \in Keys |-> "empty"], {}, TRUE) }

\* whether selectCache(key, needSelect) calls RemoteStore.select
WillFetch(t, key, needSelect) ==
    t.m_cache[key] \in {ABSENT, NULLP} /\ t.m_remoteDB /\ needSelect

\* the outcomes of the RemoteStore call of an operation: it answers (FALSE)
\* or throws (TRUE)
Fails(t, key, needSelect) ==
    IF WillFetch(t, key, needSelect) THEN BOOLEAN ELSE {FALSE}

Quiet == \A th \in Threads : thr[th].pc = "idle"

Live(t) == ~t.fault

\* history: the keys whose slot has held a dirty Entries
NoteDirty(t) ==
    [t EXCEPT !.wasDirty =
        @ \cup {k \in Keys : /\ t.m_cache[k] # ABSENT
                             /\ t.m_cache[k] # NULLP
                             /\ t.heap[t.m_cache[k]].dirty}]

\* the calling thread runs op on table 1
Step(new) ==
    /\ Quiet
    /\ Live(tabs[1])
    /\ Bounded(new)
    /\ tabs' = [tabs EXCEPT ![1] = NoteDirty(new)]
    /\ UNCHANGED thr

Init ==
    /\ \E t \in StartTables : tabs = [i \in Tables |-> t]
    /\ thr = [th \in Threads |-> IdleThread]

SelectCache ==
    \E k \in SpecKeys, ns \in BOOLEAN : \E fail \in Fails(tabs[1], k, ns) :
        LET sc == selectCache(tabs[1], k, ns, fail)
        IN  /\ Step([sc.t EXCEPT !.ret =
                       [RetOf(tabs[1], "selectCache", k) EXCEPT
                           !.needSelect = ns, !.calls = sc.calls,
                           !.ref = sc.ref, !.exc = sc.exc]])

Select ==
    \E k \in SpecKeys, c \in Conditions : \E fail \in Fails(tabs[1], k, TRUE) :
        Step(select(tabs[1], k, c, fail))

Update ==
    \E k \in SpecKeys, e \in Patches, c \in Conditions, o \in AccessOptions :
        \E fail \in Fails(tabs[1], k, TRUE) :
            Step(update(tabs[1], k, e, c, o, fail))

Insert ==
    \E k \in SpecKeys, e \in InsertEntries, o \in AccessOptions, ns \in BOOLEAN :
        \E fail \in Fails(tabs[1], k, ns) :
            Step(insert(tabs[1], k, e, o, ns, fail))

Remove ==
    \E k \in SpecKeys, c \in Conditions, o \in AccessOptions :
        \E fail \in Fails(tabs[1], k, TRUE) :
            Step(remove(tabs[1], k, c, o, fail))

\* the transaction manager undoes the change recorded last
Rollback ==
    /\ tabs[1].journal # <<>>
    /\ LET j == tabs[1].journal
           t == [tabs[1] EXCEPT !.journal = SubSeq(j, 1, Len(j) - 1)]
       IN  Step(rollback(t, j[Len(j)]))

Empty ==
    Step([tabs[1] EXCEPT !.ret = [NoRet EXCEPT !.op = "empty",
                                     !.val = IF empty(tabs[1]) THEN 1 ELSE 0]])

Hash ==
    Step([tabs[1] EXCEPT !.ret = [NoRet EXCEPT !.op = "hash",
                                     !.digest = hash(tabs[1])]])

Dump ==
    Step([tabs[1] EXCEPT !.ret = [NoRet EXCEPT !.op = "dump",
                                     !.data = dump(tabs[1]).data,
                                     !.val = IF dump(tabs[1]).dirtyTable THEN 1 ELSE 0]])

Next ==
    \/ SelectCache
    \/ Select
    \/ Update
    \/ Insert
    \/ Remove
    \/ Rollback
    \/ Empty
    \/ Hash
    \/ Dump

Spec == Init /\ [][Next]_vars

(* --------------------- updates of a system field ----------------------- *)

\* entries a caller passes to update that write the field _id_ alone
IdPatches == { ("_id_" :> "9") }

UpdateId ==
    \E k \in SpecKeys, e \in IdPatches, c \in Conditions, o \in AccessOptions :
        \E fail \in Fails(tabs[1], k, TRUE) :
            Step(update(tabs[1], k, e, c, o, fail))

NextDigest ==
    \/ Select
    \/ UpdateId
    \/ Insert
    \/ Remove
    \/ Rollback
    \/ Hash

SpecDigest == Init /\ [][NextDigest]_vars

(* ------------------------- a block of selects --------------------------- *)

SelectAny ==
    \E k \in Keys, c \in Conditions : \E fail \in Fails(tabs[1], k, TRUE) :
        Step(select(tabs[1], k, c, fail))

NextSelect ==
    \/ SelectAny
    \/ Hash

SpecSelect == Init /\ [][NextSelect]_vars


(* ------------------- the same calls on two tables ---------------------- *)

\* two tables that differ only in what RemoteStore.select answers: null for
\* table 1, a non-null Entries of size 0 for table 2
InitPair ==
    /\ \E rec \in BOOLEAN :
          tabs = [i \in Tables |->
                     NewTable(TRUE,
                              [k \in Keys |-> IF i = 1 THEN "null" ELSE "empty"],
                              {"0xA"}, rec)]
    /\ thr = [th \in Threads |-> IdleThread]

PairStep(new1, new2) ==
    /\ Live(tabs[1]) /\ Live(tabs[2])
    /\ Bounded(new1) /\ Bounded(new2)
    /\ tabs' = [i \in Tables |-> IF i = 1 THEN new1 ELSE new2]
    /\ UNCHANGED thr

PairSelect ==
    \E k \in SpecKeys, c \in Conditions :
        PairStep(select(tabs[1], k, c, FALSE), select(tabs[2], k, c, FALSE))

PairUpdate ==
    \E k \in SpecKeys, e \in Patches, c \in Conditions, o \in AccessOptions :
        PairStep(update(tabs[1], k, e, c, o, FALSE),
                 update(tabs[2], k, e, c, o, FALSE))

PairInsert ==
    \E k \in SpecKeys, e \in InsertEntries, o \in AccessOptions, ns \in BOOLEAN :
        PairStep(insert(tabs[1], k, e, o, ns, FALSE),
                 insert(tabs[2], k, e, o, ns, FALSE))

PairRemove ==
    \E k \in SpecKeys, c \in Conditions, o \in AccessOptions :
        PairStep(remove(tabs[1], k, c, o, FALSE),
                 remove(tabs[2], k, c, o, FALSE))

\* each table undoes the change its recorder was given last
PairRollback ==
    /\ tabs[1].journal # <<>> /\ tabs[2].journal # <<>>
    /\ LET j1 == tabs[1].journal
           j2 == tabs[2].journal
       IN  PairStep(rollback([tabs[1] EXCEPT !.journal = SubSeq(j1, 1, Len(j1) - 1)],
                             j1[Len(j1)]),
                    rollback([tabs[2] EXCEPT !.journal = SubSeq(j2, 1, Len(j2) - 1)],
                             j2[Len(j2)]))

PairEmpty ==
    PairStep([tabs[1] EXCEPT !.ret = [NoRet EXCEPT !.op = "empty",
                                         !.val = IF empty(tabs[1]) THEN 1 ELSE 0]],
             [tabs[2] EXCEPT !.ret = [NoRet EXCEPT !.op = "empty",
                                         !.val = IF empty(tabs[2]) THEN 1 ELSE 0]])

NextPair ==
    \/ PairSelect
    \/ PairUpdate
    \/ PairInsert
    \/ PairRemove
    \/ PairRollback
    \/ PairEmpty

SpecPair == InitPair /\ [][NextPair]_vars

(* ------------- inserts on distinct keys, in any order ------------------ *)

\* entries the callers insert, and the options they pass
OrderEntries ==
    { ("name" :> "A"),
      ("age" :> "1" @@ "name" :> "B"),
      ("bad" :> "1") }

OrderOptions == [origin |-> "0xA", check |-> TRUE]

\* history: the insert calls the table received
Logged(t, call) == [t EXCEPT !.log = Append(@, call)]

\* table i receives an insert on a key it received none on
InsertAt(i) ==
    \E k \in Keys, e \in OrderEntries, ns \in BOOLEAN :
        /\ \A j \in DOMAIN tabs[i].log : tabs[i].log[j][1] # k
        /\ LET new == Logged(insert(tabs[i], k, e, OrderOptions, ns, FALSE),
                             <<k, e, ns>>)
           IN  PairStep(IF i = 1 THEN new ELSE tabs[1],
                        IF i = 2 THEN new ELSE tabs[2])

HashBoth ==
    PairStep([tabs[1] EXCEPT !.ret = [NoRet EXCEPT !.op = "hash",
                                         !.digest = hash(tabs[1])]],
             [tabs[2] EXCEPT !.ret = [NoRet EXCEPT !.op = "hash",
                                         !.digest = hash(tabs[2])]])

NextOrder ==
    \/ \E i \in Tables : InsertAt(i)
    \/ HashBoth

SpecOrder == Init /\ [][NextOrder]_vars

(* ------------------ selectCache run by several threads ------------------ *)

\* The steps of selectCache(key) (needSelect = true) between its accesses to
\* m_cache, on table 1.  The read of it->second at the find is not ordered
\* with the store made under x_cache by another thread: it gives the value
\* before or after that store, as the interleaving of the steps has it.

ThreadStep(th, from, newThread, newTable) ==
    /\ thr[th].pc = from
    /\ Live(tabs[1])
    /\ Bounded(newTable)
    /\ thr' = [thr EXCEPT ![th] = newThread]
    /\ tabs' = [tabs EXCEPT ![1] = newTable]

T_Call(th) ==
    \E k \in SpecKeys :
        ThreadStep(th, "idle", [IdleThread EXCEPT !.pc = "find", !.key = k], tabs[1])

\* CacheItr it = m_cache.find(key) and the branch on it
T_Find(th) ==
    /\ thr[th].pc = "find"
    /\ LET slot == tabs[1].m_cache[thr[th].key]
           me == [thr[th] EXCEPT !.it = slot]
       IN  ThreadStep(th, "find",
               IF slot = ABSENT
               THEN [me EXCEPT !.pc = IF tabs[1].m_remoteDB THEN "fetch" ELSE "return"]
               ELSE IF slot = NULLP
               THEN [me EXCEPT !.pc = IF tabs[1].m_remoteDB THEN "lock" ELSE "return"]
               ELSE [me EXCEPT !.pc = "return", !.entries = slot],
               tabs[1])

\* entries = m_remoteDB->select(...) on the first touch
T_Fetch(th) ==
    /\ thr[th].pc = "fetch"
    /\ LET rs == remoteSelect(tabs[1], thr[th].key)
       IN  ThreadStep(th, "fetch",
               [thr[th] EXCEPT !.pc = "insert", !.entries = rs.ref, !.calls = @ + 1],
               rs.t)

\* m_cache.insert(std::make_pair(key, entries))
T_Insert(th) ==
    /\ thr[th].pc = "insert"
    /\ ThreadStep(th, "insert", [thr[th] EXCEPT !.pc = "return"],
           [tabs[1] EXCEPT !.m_cache = CacheInsert(@, thr[th].key, thr[th].entries),
                           !.order = Touch(@, thr[th].key)])

\* dev::WriteGuard l(x_cache)
T_Lock(th) ==
    /\ tabs[1].x_cache = 0
    /\ ThreadStep(th, "lock", [thr[th] EXCEPT !.pc = "recheck"],
           [tabs[1] EXCEPT !.x_cache = th])

\* tmpIt = m_cache.find(key) and the test of tmpIt->second under the lock
T_Recheck(th) ==
    /\ thr[th].pc = "recheck"
    /\ LET slot == tabs[1].m_cache[thr[th].key]
       IN  IF slot = NULLP
           THEN ThreadStep(th, "recheck", [thr[th] EXCEPT !.pc = "fetchL"], tabs[1])
           ELSE ThreadStep(th, "recheck",
                    [thr[th] EXCEPT !.pc = "return", !.entries = slot],
                    [tabs[1] EXCEPT !.x_cache = 0])

\* entries = m_remoteDB->select(...) under the lock
T_FetchL(th) ==
    /\ thr[th].pc = "fetchL"
    /\ LET rs == remoteSelect(tabs[1], thr[th].key)
       IN  ThreadStep(th, "fetchL",
               [thr[th] EXCEPT !.pc = "store", !.entries = rs.ref, !.calls = @ + 1],
               rs.t)

\* m_cache[key] = entries, and the guard's release
T_Store(th) ==
    /\ thr[th].pc = "store"
    /\ ThreadStep(th, "store", [thr[th] EXCEPT !.pc = "return"],
           [tabs[1] EXCEPT !.m_cache = CacheStore(@, thr[th].key, thr[th].entries),
                           !.x_cache = 0])

\* if (entries == nullptr) entries = make_shared<Entries>(); return entries
T_Return(th) ==
    /\ thr[th].pc = "return"
    /\ ThreadStep(th, "return",
           [thr[th] EXCEPT !.pc = "done",
                           !.entries = IF @ = NULLP THEN FRESH ELSE @],
           tabs[1])

NextConc ==
    \/ Insert
    \/ Rollback
    \/ \E th \in Threads : T_Call(th)
    \/ \E th \in Threads : T_Find(th)
    \/ \E th \in Threads : T_Fetch(th)
    \/ \E th \in Threads : T_Insert(th)
    \/ \E th \in Threads : T_Lock(th)
    \/ \E th \in Threads : T_Recheck(th)
    \/ \E th \in Threads : T_FetchL(th)
    \/ \E th \in Threads : T_Store(th)
    \/ \E th \in Threads : T_Return(th)

SpecConc == Init /\ [][NextConc]_vars

(* ------------------------------- claims -------------------------------- *)

T1 == tabs[1]

\* the Entries the cache holds for key, when the slot holds one
Cached(t, key) == t.m_cache[key] \notin {ABSENT, NULLP}
CachedRows(t, key) == t.heap[t.m_cache[key]].rows

\* the caller of the last mutating operation was to be refused
Unauthorized(t) ==
    /\ t.ret.op \in {"insert", "update", "remove"}
    /\ t.m_tableInfo.authorizedAddress # {}
    /\ t.ret.options.check
    /\ t.ret.options.origin \notin t.m_tableInfo.authorizedAddress

\* C1: an insert, update or remove by an origin outside a non-empty
\* authorizedAddress with options.check returns CODE_NO_AUTHORIZED, leaves
\* every slot and every Entries as they were, calls RemoteStore.select not
\* once and records nothing.
C1_AuthorityGate ==
    [][ Unauthorized(tabs'[1]) =>
            /\ tabs'[1].ret.val = CODE_NO_AUTHORIZED
            /\ tabs'[1].m_cache = tabs[1].m_cache
            /\ tabs'[1].heap = tabs[1].heap
            /\ tabs'[1].journal = tabs[1].journal
            /\ cacheSize(tabs'[1]) = cacheSize(tabs[1])
            /\ tabs'[1].ret.calls = 0
            /\ tabs'[1].ret.recs = 0 ]_vars

\* an update by a refused origin on a key the cache holds, recorder bound
C1_Witness ==
    /\ Unauthorized(T1)
    /\ T1.ret.op = "update"
    /\ Cached(T1, T1.ret.key)
    /\ T1.m_recorder


\* the last operation passed the authority gate, its RemoteStore call
\* answered and checkField accepted the entry
Passed(r) == ~r.denied /\ ~r.caught /\ ~r.exc

FieldsOf(rows) == [j \in DOMAIN rows |-> rows[j].fields]

\* C2: after an insert that passed the gates and returned 1, the cache maps
\* the key to an Entries whose last entry is the inserted one.
C2_InsertVisible ==
    (T1.ret.op = "insert" /\ Passed(T1.ret) /\ T1.ret.val = 1) =>
        /\ Cached(T1, T1.ret.key)
        /\ CachedRows(T1, T1.ret.key) # <<>>
        /\ CachedRows(T1, T1.ret.key)[Len(CachedRows(T1, T1.ret.key))].fields
               = T1.ret.arg

\* C4: two consecutive selectCache(k) on a key the cache did not hold, with
\* needSelect and RemoteStore bound and answering, call RemoteStore.select
\* at most once and return the same Entries object.
C4_CacheIdempotent ==
    [][ ( /\ tabs[1].ret.op = "selectCache"
          /\ tabs[1].ret.pre = ABSENT
          /\ tabs[1].ret.needSelect /\ ~tabs[1].ret.exc
          /\ tabs[1].m_remoteDB
          /\ tabs'[1].ret.op = "selectCache"
          /\ tabs'[1].ret.key = tabs[1].ret.key
          /\ tabs'[1].ret.needSelect /\ ~tabs'[1].ret.exc )
        => /\ tabs[1].ret.calls + tabs'[1].ret.calls <= 1
           /\ tabs'[1].ret.ref = tabs[1].ret.ref
           /\ tabs[1].ret.ref # FRESH ]_vars

\* C6: rollback of the Change an update recorded leaves every entry of the
\* key with the field names and values it had before the update.
C6_UpdateReversible ==
    [][ ( /\ tabs[1].ret.op = "update" /\ tabs[1].ret.recs = 1
          /\ tabs'[1].ret.op = "rollback" )
        => /\ ~tabs'[1].fault
           /\ Cached(tabs'[1], tabs[1].ret.key)
           /\ FieldsOf(CachedRows(tabs'[1], tabs[1].ret.key))
                  = FieldsOf(tabs[1].ret.before) ]_vars

\* C7: rollback of the Change an insert recorded never acts on a null slot,
\* and leaves a tombstone when the entry was the only one, otherwise the
\* Entries without the inserted entry.
C7_InsertReversible ==
    [][ ( /\ tabs[1].ret.op = "insert" /\ tabs[1].ret.val = 1
          /\ tabs[1].ret.recs = 1
          /\ tabs'[1].ret.op = "rollback" )
        => /\ tabs'[1].ret.ref # NULLP
           /\ ~tabs'[1].fault
           /\ IF tabs[1].ret.before = <<>>
              THEN tabs'[1].m_cache[tabs[1].ret.key] = NULLP
              ELSE /\ Cached(tabs'[1], tabs[1].ret.key)
                   /\ CachedRows(tabs'[1], tabs[1].ret.key) = tabs[1].ret.before ]_vars

\* C8: rollback of the Change a remove recorded leaves every entry the
\* remove matched Live and every other entry with the status it had.
C8_RemoveReversible ==
    [][ ( /\ tabs[1].ret.op = "remove" /\ tabs[1].ret.recs = 1
          /\ tabs'[1].ret.op = "rollback" )
        => /\ ~tabs'[1].fault
           /\ tabs[1].ret.matched # {} => Cached(tabs'[1], tabs[1].ret.key)
           /\ tabs[1].ret.ref # FRESH =>
                LET rows == CachedRows(tabs'[1], tabs[1].ret.key)
                IN  /\ Len(rows) = Len(tabs[1].ret.before)
                    /\ \A j \in DOMAIN rows :
                          IF (j - 1) \in tabs[1].ret.matched
                          THEN rows[j].status = 0
                          ELSE rows[j].status = tabs[1].ret.before[j].status ]_vars

\* a Remove with one record was rolled back on an Entries of two rows: the
\* matched row went from Deleted to Live
C8_Witness ==
    /\ T1.ret.op = "rollback" /\ T1.ret.kind = "Remove"
    /\ Len(T1.ret.value) = 1
    /\ Cached(T1, T1.ret.key)
    /\ Len(CachedRows(T1, T1.ret.key)) = 2
    /\ \E j \in DOMAIN CachedRows(T1, T1.ret.key) :
          /\ T1.ret.value[1].index = j - 1
          /\ T1.ret.before[j].status = 1
          /\ CachedRows(T1, T1.ret.key)[j].status = 0

\* C9: select, update, insert and remove return normally, with the no-op
\* value when RemoteStore.select failed or checkField rejected the entry.
C9_NoException ==
    T1.ret.op \in {"select", "update", "insert", "remove"} =>
        /\ ~T1.ret.exc
        /\ T1.ret.caught =>
              /\ T1.ret.val = IF T1.ret.op = "insert" THEN 1 ELSE 0
              /\ T1.ret.rows = <<>>


\* an insert, update or remove that ran to its recorder call: it passed the
\* gates, and an update found the key's Entries non-empty
Successful(r) ==
    /\ r.op \in {"insert", "update", "remove"}
    /\ Passed(r)
    /\ r.op = "update" => r.before # <<>>

\* the rows the recorder saw already carry the mutation of the operation
SawMutation(r) ==
    CASE r.op = "insert" ->
            /\ Len(r.seen) = Len(r.before) + 1
            /\ r.seen[Len(r.seen)].fields = r.arg
      [] r.op = "update" ->
            /\ Len(r.seen) = Len(r.before)
            /\ \A j \in DOMAIN r.seen :
                  IF (j - 1) \in r.matched
                  THEN \A n \in DOMAIN r.arg : getField(r.seen[j], n) = r.arg[n]
                  ELSE r.seen[j] = r.before[j]
      [] r.op = "remove" ->
            /\ Len(r.seen) = Len(r.before)
            /\ \A j \in DOMAIN r.seen :
                  IF (j - 1) \in r.matched
                  THEN r.seen[j].status = 1
                  ELSE r.seen[j] = r.before[j]
      [] OTHER -> TRUE

\* C10 as stated: with a recorder bound, each successful insert, update and
\* remove calls the recorder exactly once, after its mutation of the
\* Entries.
C10_RecorderAfterMutation ==
    (T1.m_recorder /\ Successful(T1.ret)) =>
        T1.ret.recs = 1 /\ SawMutation(T1.ret)

\* C10 amended: with a recorder bound, each successful insert, update and
\* remove calls the recorder exactly once before it returns; update and
\* remove call it after the fields are written and the statuses set, insert
\* calls it before the entry is appended, with the index the entry will get.
C10_RecorderOrder ==
    (T1.m_recorder /\ Successful(T1.ret)) =>
        /\ T1.ret.recs = 1
        /\ T1.journal # <<>>
        /\ T1.journal[Len(T1.journal)].key = T1.ret.key
        /\ IF T1.ret.op = "insert"
           THEN /\ T1.ret.seen = T1.ret.before
                /\ T1.journal[Len(T1.journal)].kind = "Insert"
                /\ T1.journal[Len(T1.journal)].value[1].index = Len(T1.ret.seen)
           ELSE SawMutation(T1.ret)

\* an insert gave the recorder index 1 while the Entries still held the one
\* entry it had
C10_Witness ==
    /\ T1.m_recorder /\ Successful(T1.ret)
    /\ T1.ret.op = "insert"
    /\ T1.ret.recs = 1
    /\ Len(T1.ret.seen) = 1
    /\ Cached(T1, T1.ret.key)
    /\ Len(CachedRows(T1, T1.ret.key)) = 2


\* what a caller observes of the last call and what the recorder was given
Observed(t) ==
    [val |-> t.ret.val, exc |-> t.ret.exc, rows |-> t.ret.rows,
     journal |-> t.journal, fault |-> t.fault]

\* C3: the same calls on a table whose RemoteStore answers null and on one
\* whose RemoteStore answers a non-null Entries of size 0 give the same
\* return values, the same journal records and the same select results.
C3_NullIsEmpty == Observed(tabs[1]) = Observed(tabs[2])

\* C5: after rollback of an Insert left a tombstone for k, the selectCache(k)
\* calls that threads make on the tombstone at the same time call
\* RemoteStore.select once in total.
C5_TombstoneReload ==
    ( /\ T1.ret.op = "rollback" /\ T1.ret.kind = "Insert"
      /\ T1.m_remoteDB
      /\ \A th \in Threads : /\ thr[th].pc = "done"
                             /\ thr[th].key = T1.ret.key
                             /\ thr[th].it = NULLP )
    => thr[1].calls + thr[2].calls = 1


\* the entry carries a field name, other than _id_, that TableInfo.fields
\* does not hold
UnknownField(t, entry) ==
    \E n \in DOMAIN entry : n # "_id_" /\ n \notin t.m_tableInfo.fields

\* C11: an insert or update whose entry carries an unknown field name writes
\* no field of a cached entry, appends no entry and gives the recorder
\* nothing: every Entries that existed is as it was, an Entries the call
\* loaded is as RemoteStore answered it, and the journal is as it was.
C11_SchemaGate ==
    [][ ( /\ tabs'[1].ret.op \in {"insert", "update"}
          /\ UnknownField(tabs'[1], tabs'[1].ret.arg) )
        => /\ tabs'[1].journal = tabs[1].journal
           /\ tabs'[1].ret.recs = 0
           /\ \A a \in DOMAIN tabs[1].heap : tabs'[1].heap[a] = tabs[1].heap[a]
           /\ \A a \in DOMAIN tabs'[1].heap \ DOMAIN tabs[1].heap :
                  tabs'[1].heap[a] = RemoteEntries(tabs[1].remote[tabs'[1].ret.key]) ]_vars

\* an update with the unknown field after a known one was refused on an
\* Entries of two rows that its empty condition matches
C11_Witness ==
    /\ T1.ret.op = "update" /\ T1.ret.caught
    /\ UnknownField(T1, T1.ret.arg)
    /\ FieldSeq(T1.ret.arg)[1] \in T1.m_tableInfo.fields
    /\ T1.ret.cond = {}
    /\ Len(T1.ret.before) = 2
    /\ Cached(T1, T1.ret.key)
    /\ CachedRows(T1, T1.ret.key) = T1.ret.before


\* no Entries of the cache is dirty and no entry of one is
NoDirtyEntries(t) ==
    \A k \in Keys :
        Cached(t, k) =>
            /\ ~t.heap[t.m_cache[k]].dirty
            /\ \A j \in DOMAIN CachedRows(t, k) : ~CachedRows(t, k)[j].dirty

\* the entry has fields, and the name of each starts or ends with '_' and
\* is not _status_
OnlyNonHashFields(entry) ==
    /\ DOMAIN entry # {}
    /\ \A n \in DOMAIN entry :
          /\ Spell[n][1] = "_" \/ Spell[n][Len(Spell[n])] = "_"
          /\ n # "_status_"

\* C12: on a table with no dirty entries, an update that writes only fields
\* whose names start or end with '_' (other than _status_) leaves hash()
\* equal to its value before the update.
C12_HashExcludesNonHash ==
    [][ ( /\ tabs'[1].ret.op = "update" /\ Passed(tabs'[1].ret)
          /\ OnlyNonHashFields(tabs'[1].ret.arg)
          /\ NoDirtyEntries(tabs[1]) )
        => hash(tabs'[1]) = hash(tabs[1]) ]_vars

\* the bytes hash() takes from the entries at the matched indexes
RECURSIVE MatchedBytes(_, _, _)
MatchedBytes(rows, matched, i) ==
    IF i > Len(rows) THEN ""
    ELSE (IF (i - 1) \in matched
          THEN FieldBytes(rows[i], FieldSeq(rows[i].fields), 1)
          ELSE "")
             \o MatchedBytes(rows, matched, i + 1)

\* C12 amended: on a table with no dirty entries, an update that writes only
\* fields whose names start or end with '_' (other than _status_) changes
\* hash() through the dirty flags it sets and not through the field: when
\* the key has entries, hash() is afterwards the digest of the key and of
\* the hash fields the matched entries had before, and holds neither the
\* name nor the value written; when the key has none, hash() is as before.
C12_HashOmitsWrittenField ==
    [][ ( /\ tabs'[1].ret.op = "update" /\ Passed(tabs'[1].ret)
          /\ OnlyNonHashFields(tabs'[1].ret.arg)
          /\ NoDirtyEntries(tabs[1]) )
        => IF tabs'[1].ret.before = <<>>
           THEN hash(tabs'[1]) = hash(tabs[1])
           ELSE hash(tabs'[1]) =
                    sha256(tabs'[1].ret.key
                             \o MatchedBytes(tabs'[1].ret.before,
                                             tabs'[1].ret.matched, 1)) ]_vars

\* an update wrote _id_ on the one clean entry of a clean Entries, and
\* hash() is no longer the zero digest
C12_Witness ==
    /\ T1.ret.op = "update" /\ Passed(T1.ret)
    /\ OnlyNonHashFields(T1.ret.arg)
    /\ T1.ret.matched = {0}
    /\ \A j \in DOMAIN T1.ret.before : ~T1.ret.before[j].dirty
    /\ getField(CachedRows(T1, T1.ret.key)[1], "_id_") = "9"
    /\ hash(T1) = sha256("k1nameA")

\* C13: on a freshly constructed table and after select calls alone, on
\* any keys and with any conditions, hash() returns the zero digest.
C13_EmptyDigest ==
    /\ hash(T1) = ZeroDigest
    /\ T1.ret.op = "hash" => T1.ret.digest = ZeroDigest

\* hash() was called with the rows RemoteStore holds loaded for both keys
C13_Witness ==
    /\ T1.ret.op = "hash"
    /\ \A k \in Keys : Cached(T1, k) /\ CachedRows(T1, k) # <<>>

\* the two tables received the same insert calls, in some order
SameInserts == Range(tabs[1].log) = Range(tabs[2].log)

\* C14: two tables that received the same inserts on distinct keys, in the
\* same or in different orders, return the same hash().
C14_HashOrder ==
    SameInserts =>
        /\ hash(tabs[1]) = hash(tabs[2])
        /\ (tabs[1].ret.op = "hash" /\ tabs[2].ret.op = "hash") =>
               tabs[1].ret.digest = tabs[2].ret.digest

\* hash() was called on two tables that hold both keys dirty and received
\* their inserts in opposite orders
C14_Witness ==
    /\ SameInserts
    /\ Len(tabs[1].log) = 2
    /\ tabs[1].log # tabs[2].log
    /\ tabs[1].order # tabs[2].order
    /\ tabs[1].ret.op = "hash" /\ tabs[2].ret.op = "hash"
    /\ \A k \in Keys : Cached(tabs[1], k) /\ tabs[1].heap[tabs[1].m_cache[k]].dirty
    /\ tabs[1].ret.digest # ZeroDigest

\* C15: dump(TableData) puts in TableData.data the slots of the cache that
\* hold an Entries, each with its Entries, and no key whose slot is null or
\* absent; it returns true exactly when one of those Entries is dirty; it
\* leaves the cache and every Entries as they were.
C15_Dump ==
    [][ tabs'[1].ret.op = "dump" =>
          /\ \A k \in Keys :
                IF Cached(tabs[1], k)
                THEN /\ <<k, tabs[1].m_cache[k]>> \in tabs'[1].ret.data
                     /\ \A p \in tabs'[1].ret.data :
                           p[1] = k => p[2] = tabs[1].m_cache[k]
                ELSE \A p \in tabs'[1].ret.data : p[1] # k
          /\ (tabs'[1].ret.val = 1) <=>
                 \E k \in Keys : Cached(tabs[1], k)
                                    /\ tabs[1].heap[tabs[1].m_cache[k]].dirty
          /\ tabs'[1].ret.val \in {0, 1}
          /\ tabs'[1].m_cache = tabs[1].m_cache
          /\ tabs'[1].order = tabs[1].order
          /\ tabs'[1].heap = tabs[1].heap ]_vars

\* dump returned true with the dirty Entries of k1 in TableData.data
C15_Witness ==
    /\ T1.ret.op = "dump" /\ T1.ret.val = 1
    /\ Cached(T1, "k1")
    /\ T1.ret.data = {<<"k1", T1.m_cache["k1"]>>}
    /\ T1.heap[T1.m_cache["k1"]].dirty

\* the last call ran processEntries on the Entries of its key
Matched(r) ==
    /\ r.op \in {"select", "update", "remove"}
    /\ Passed(r)

\* C16: select, update and remove with an empty condition match every
\* entry of the key, Deleted ones too; with a condition of one predicate or
\* more they match no Deleted entry; the matched indexes are ascending.
C16_DeletedAndConditions ==
    Matched(T1.ret) =>
        /\ T1.ret.cond = {} =>
              T1.ret.matched = {j - 1 : j \in DOMAIN T1.ret.before}
        /\ T1.ret.cond # {} =>
              \A i \in T1.ret.matched : T1.ret.before[i + 1].status # 1
        /\ Range(T1.ret.indexes) = T1.ret.matched
        /\ \A a, b \in DOMAIN T1.ret.indexes :
              a < b => T1.ret.indexes[a] < T1.ret.indexes[b]

\* a select with the empty condition returned a Deleted entry and a Live
\* one, in their order
C16_Witness ==
    /\ T1.ret.op = "select" /\ Passed(T1.ret)
    /\ T1.ret.cond = {}
    /\ T1.ret.indexes = <<0, 1>>
    /\ Len(T1.ret.rows) = 2
    /\ T1.ret.rows[1].status = 1
    /\ T1.ret.rows[2].status = 0

\* rollback turned no dirty flag of an Entries or of an entry from true to
\* false in this step
RollbackKeepsFlags ==
    tabs'[1].ret.op = "rollback" =>
        \A a \in DOMAIN tabs[1].heap :
            /\ tabs[1].heap[a].dirty => tabs'[1].heap[a].dirty
            /\ \A j \in DOMAIN tabs[1].heap[a].rows
                          \cap DOMAIN tabs'[1].heap[a].rows :
                  tabs[1].heap[a].rows[j].dirty => tabs'[1].heap[a].rows[j].dirty

\* C17 as stated: once the cache has held a dirty Entries for a key, every
\* Entries it holds for that key in a later state is dirty, and rollback
\* turns no dirty flag from true to false.
C17_DirtyMonotonic ==
    [][ /\ \A k \in Keys :
              (k \in tabs'[1].wasDirty /\ Cached(tabs'[1], k)) =>
                  tabs'[1].heap[tabs'[1].m_cache[k]].dirty
        /\ RollbackKeepsFlags ]_vars

\* C17 amended: an Entries that is dirty stays dirty in every later state,
\* and rollback turns no dirty flag of an Entries or of an entry from true
\* to false; the slot of a key may hold a clean Entries after a dirty one
\* only when it was a tombstone in between and selectCache loaded the
\* Entries anew.
C17_EntriesStayDirty ==
    [][ /\ \A a \in DOMAIN tabs[1].heap :
              tabs[1].heap[a].dirty => tabs'[1].heap[a].dirty
        /\ RollbackKeepsFlags
        /\ \A k \in Keys :
              ( /\ Cached(tabs[1], k) /\ tabs[1].heap[tabs[1].m_cache[k]].dirty
                /\ Cached(tabs'[1], k) )
              => tabs'[1].heap[tabs'[1].m_cache[k]].dirty
        /\ \A k \in Keys :
              ( /\ k \in tabs[1].wasDirty /\ Cached(tabs'[1], k)
                /\ ~tabs'[1].heap[tabs'[1].m_cache[k]].dirty
                /\ ~(Cached(tabs[1], k) /\ tabs'[1].m_cache[k] = tabs[1].m_cache[k]) )
              => /\ tabs[1].m_cache[k] = NULLP
                 /\ tabs'[1].ret.calls = 1 ]_vars

\* after rollback of the Insert left a tombstone for k1, a call loaded a
\* clean Entries in the slot while the Entries that was dirty still is
C17_Witness ==
    /\ "k1" \in T1.wasDirty
    /\ T1.ret.pre = NULLP /\ T1.ret.calls = 1
    /\ Cached(T1, "k1")
    /\ ~T1.heap[T1.m_cache["k1"]].dirty
    /\ \E a \in DOMAIN T1.heap : a # T1.m_cache["k1"] /\ T1.heap[a].dirty

\* C18: when the threads call selectCache(k) at the same time on a key the
\* cache does not hold and RemoteStore answers each a non-null Entries,
\* each call returns the Entries the cache holds for k afterwards.
C18_FirstTouchAuthoritative ==
    ( /\ T1.m_remoteDB
      /\ \A th \in Threads : /\ thr[th].pc = "done"
                             /\ thr[th].key = "k1"
                             /\ thr[th].it = ABSENT
      /\ T1.remote["k1"] # "null" )
    => \A th \in Threads : thr[th].entries = T1.m_cache["k1"]

\* what a caller reads of the entries a select returned: their number, the
\* value getField gives for each field name, their statuses
Read(rows) ==
    [j \in DOMAIN rows |->
        [values |-> [n \in Range(NameOrder) |-> getField(rows[j], n)],
         status |-> rows[j].status]]

\* what select(key, empty condition) returns on the table
SelectAll(t, key) == Read(select(t, key, {}, FALSE).ret.rows)

\* what select(key, empty condition) returns on a table nothing was done to
SelectAllFresh(t, key) ==
    IF t.m_remoteDB THEN Read(RemoteEntries(t.remote[key]).rows) ELSE <<>>

\* C19: with a recorder bound, once every recorded Change is rolled back in
\* reverse order of recording, select(k, empty condition) returns for every
\* key the entries, field values and statuses it returned before the calls:
\* those of the fresh table when the whole journal is undone, and those
\* before the one call when that call is undone right after it.
C19_FullUndo ==
    [][ /\ (tabs'[1].m_recorder /\ tabs'[1].journal = <<>>) =>
              /\ ~tabs'[1].fault
              /\ \A k \in SpecKeys :
                    SelectAll(tabs'[1], k) = SelectAllFresh(tabs'[1], k)
        /\ ( /\ tabs[1].ret.op \in {"insert", "update", "remove"}
              /\ tabs[1].ret.recs = 1 /\ tabs[1].ret.needSelect
              /\ tabs'[1].ret.op = "rollback" )
           => /\ ~tabs'[1].fault
              /\ SelectAll(tabs'[1], tabs[1].ret.key) = Read(tabs[1].ret.before) ]_vars

\* C20: an update or remove that returns 0 because it matched no entry of
\* the key, a remove on a key whose Entries has size 0 included, leaves
\* hash() and the value dump() returns as they were before the call.
C20_NoMatchKeepsDigest ==
    [][ ( /\ tabs'[1].ret.op \in {"update", "remove"}
          /\ Passed(tabs'[1].ret)
          /\ tabs'[1].ret.val = 0 /\ tabs'[1].ret.matched = {} )
        => /\ hash(tabs'[1]) = hash(tabs[1])
           /\ dump(tabs'[1]).dirtyTable = dump(tabs[1]).dirtyTable ]_vars

====
